---------------------------- MODULE Spec2Model ----------------------------
(***************************************************************************)
(* Knight's Tour solver (src/Horse/Horse.py, class KnightsTour): a         *)
(* backtracking search ordered by Warnsdorff's rule, with a polled         *)
(* wall-clock timeout, a best-partial-result snapshot and statistics.      *)
(*                                                                         *)
(* The recursion of solve_recursive is an explicit stack of frames; every  *)
(* read of time.time() may return any value not below the previous one.    *)
(***************************************************************************)
EXTENDS Integers, Sequences, FiniteSets, TLC

(***************************************************************************)
(* Bounds of the model.                                                    *)
(***************************************************************************)
MaxDim == 4            \* constructor arguments are drawn from 0..MaxDim
MaxCells == 12         \* boards of at most this many cells are explored
MaxSolves == 2         \* solve() calls per instance in SpecAgain
MaxClock == 1          \* the wall clock takes the values 0..MaxClock
MaxSide == 6           \* SpecMain: board sides are drawn from 0..MaxSide
MaxSkew == 1           \* SpecMain: height and width differ by at most this

(***************************************************************************)
(* Program constants.                                                      *)
(***************************************************************************)
UNVISITED == -1
START_POSITION == 1
DefaultTimeout == 300
MinDim == 3

KNIGHT_MOVES ==
    << <<2, 1>>, <<1, 2>>, <<-1, 2>>, <<-2, 1>>,
       <<-2, -1>>, <<-1, -2>>, <<1, -2>>, <<2, -1>> >>

\* An attribute that no constructor has assigned yet.
NotAllocated == << >>

VARIABLES
    pc,             \* "new" | "rejected" | "idle" | "searching" | "raising"
    ctor_args,      \* arguments of KnightsTour(height, width), once called
    height, width,  \* self.height, self.width (0 before construction)
    board,          \* self.board: [<<x, y>> -> UNVISITED or a move number]
    best_state,     \* self.best_state: [board, moves_count]
    stats,          \* self.stats: SolutionStats
    start_time,     \* self.start_time
    timeout_limit,  \* self.timeout_limit
    now,            \* last value returned by time.time()
    stack,          \* pending solve_recursive frames, innermost last
    ret,            \* value returned by the solve_recursive call that just ended
    solve_args,     \* arguments of the latest solve() call
    result,         \* outcome of the latest constructor or solve() call
    calls,          \* number of solve() calls made so far
    first_run       \* outcome of the first solve() call that ran a search

vars == << pc, ctor_args, height, width, board, best_state, stats, start_time,
           timeout_limit, now, stack, ret, solve_args, result, calls,
           first_run >>

solver == << height, width, board, best_state, stats, start_time,
             timeout_limit >>

----------------------------------------------------------------------------
(***************************************************************************)
(* Board and move model.                                                   *)
(***************************************************************************)
Cells(h, w) == (0 .. h - 1) \X (0 .. w - 1)

EmptyBoard(h, w) == [c \in Cells(h, w) |-> UNVISITED]

SolutionStats ==
    [time_elapsed |-> 0, backtracks |-> 0, max_depth |-> 0,
     total_attempts |-> 0, timeout_occurred |-> FALSE]

Max(a, b) == IF a >= b THEN a ELSE b

\* is_safe without the test that the cell is free.
is_safe_bounds_only(b, h, w, x, y) ==
    /\ 0 <= x /\ x < h
    /\ 0 <= y /\ y < w

is_safe(b, h, w, x, y) ==
    /\ 0 <= x /\ x < h
    /\ 0 <= y /\ y < w
    /\ b[<<x, y>>] = UNVISITED

\* count_onward_moves counting the neighbours on the board, visited or not.
count_onward_cells(b, h, w, x, y) ==
    Cardinality({i \in 1 .. Len(KNIGHT_MOVES) :
                    /\ 0 <= x + KNIGHT_MOVES[i][1] /\ x + KNIGHT_MOVES[i][1] < h
                    /\ 0 <= y + KNIGHT_MOVES[i][2] /\ y + KNIGHT_MOVES[i][2] < w})

count_onward_moves(b, h, w, x, y) ==
    Cardinality({i \in 1 .. Len(KNIGHT_MOVES) :
                    is_safe(b, h, w, x + KNIGHT_MOVES[i][1], y + KNIGHT_MOVES[i][2])})

\* The list built by the loop of get_possible_moves, before sorting:
\* one (degree, next_x, next_y) per safe offset, in the order of KNIGHT_MOVES.
RECURSIVE CollectMoves(_, _, _, _, _, _)
CollectMoves(b, h, w, x, y, i) ==
    IF i > Len(KNIGHT_MOVES) THEN << >>
    ELSE LET nx == x + KNIGHT_MOVES[i][1]
             ny == y + KNIGHT_MOVES[i][2]
             rest == CollectMoves(b, h, w, x, y, i + 1)
         IN  IF is_safe(b, h, w, nx, ny)
             THEN << <<count_onward_moves(b, h, w, nx, ny), nx, ny>> >> \o rest
             ELSE rest

\* Python's ordering of tuples of three integers.
TupleLess(s, t) ==
    \/ s[1] < t[1]
    \/ s[1] = t[1] /\ s[2] < t[2]
    \/ s[1] = t[1] /\ s[2] = t[2] /\ s[3] < t[3]

\* Stable insertion of e into the sorted sequence s, after its equals.
RECURSIVE Insert(_, _)
Insert(e, s) ==
    IF s = << >> THEN << e >>
    ELSE IF TupleLess(e, Head(s)) THEN << e >> \o s
    ELSE << Head(s) >> \o Insert(e, Tail(s))

\* Stable insertion by the degree alone.
RECURSIVE InsertByDegree(_, _)
InsertByDegree(e, s) ==
    IF s = << >> THEN << e >>
    ELSE IF e[1] < Head(s)[1] THEN << e >> \o s
    ELSE << Head(s) >> \o InsertByDegree(e, Tail(s))

\* sorted(possible_moves, key=degree): ties keep the order of KNIGHT_MOVES.
RECURSIVE sorted_by_degree(_)
sorted_by_degree(s) ==
    IF s = << >> THEN << >>
    ELSE InsertByDegree(s[Len(s)], sorted_by_degree(SubSeq(s, 1, Len(s) - 1)))

\* sorted(possible_moves): a stable sort by the whole tuple.
RECURSIVE sorted(_)
sorted(s) ==
    IF s = << >> THEN << >>
    ELSE Insert(s[Len(s)], sorted(SubSeq(s, 1, Len(s) - 1)))

get_possible_moves(b, h, w, x, y) == sorted(CollectMoves(b, h, w, x, y, 1))

\* update_best_state that also records a path as long as the best one.
update_best_state_on_equal(bs, b, move_num) ==
    IF move_num >= bs.moves_count
    THEN [board |-> b, moves_count |-> move_num]
    ELSE bs

update_best_state(bs, b, move_num) ==
    IF move_num > bs.moves_count
    THEN [board |-> b, moves_count |-> move_num]
    ELSE bs

\* time.time() - self.start_time > self.timeout_limit
TimedOut(t, start, limit) == t - start > limit

\* The same test with its upper bounds off by one.
StartInBoardInclusive(h, w, sx, sy) == 0 <= sx /\ sx <= h /\ 0 <= sy /\ sy <= w

\* 0 <= start_x < self.height and 0 <= start_y < self.width
StartInBoard(h, w, sx, sy) == 0 <= sx /\ sx < h /\ 0 <= sy /\ sy < w

\* The same test with "and" for "or".
BadDimensionsBoth(h, w) == h < MinDim /\ w < MinDim

\* height < 3 or width < 3
BadDimensions(h, w) == h < MinDim \/ w < MinDim

\* The completion test one move early.
TourCompleteEarly(move_num, h, w) == move_num = h * w

\* move_num == self.height * self.width + 1
TourComplete(move_num, h, w) == move_num = h * w + 1

Frame(x, y, move_num, depth) ==
    [x |-> x, y |-> y, move_num |-> move_num, depth |-> depth,
     at |-> "entry", moves |-> << >>, i |-> 0]

Top == stack[Len(stack)]
Pop == SubSeq(stack, 1, Len(stack) - 1)
SetTop(f) == [stack EXCEPT ![Len(stack)] = f]

----------------------------------------------------------------------------
Init ==
    /\ pc = "new"
    /\ ctor_args = NotAllocated
    /\ height = 0
    /\ width = 0
    /\ board = NotAllocated
    /\ best_state = NotAllocated
    /\ stats = NotAllocated
    /\ start_time = NotAllocated
    /\ timeout_limit = NotAllocated
    /\ now = 0
    /\ stack = << >>
    /\ ret = "none"
    /\ solve_args = NotAllocated
    /\ result = "none"
    /\ calls = 0
    /\ first_run = NotAllocated

\* KnightsTour.__init__(height, width)
Construct(h, w) ==
    /\ pc = "new"
    /\ ctor_args' = [height |-> h, width |-> w]
    /\ IF BadDimensions(h, w)
       THEN /\ pc' = "rejected"
            /\ result' = "ValueError"
            /\ UNCHANGED solver
       ELSE /\ pc' = "idle"
            /\ result' = "none"
            /\ height' = h
            /\ width' = w
            /\ board' = EmptyBoard(h, w)
            /\ best_state' = [board |-> EmptyBoard(h, w),
                              moves_count |-> START_POSITION]
            /\ stats' = SolutionStats
            /\ start_time' = 0
            /\ timeout_limit' = DefaultTimeout
    /\ UNCHANGED << now, stack, ret, solve_args, calls, first_run >>

\* KnightsTour.solve(start_x, start_y, timeout), up to the first call of
\* solve_recursive.
Solve(sx, sy, timeout) ==
    /\ pc = "idle"
    /\ solve_args' = [start_x |-> sx, start_y |-> sy, timeout |-> timeout]
    /\ calls' = calls + 1
    /\ IF ~StartInBoard(height, width, sx, sy)
       THEN /\ result' = "ValueError"
            /\ UNCHANGED << pc, solver, now, stack, ret, first_run >>
       ELSE /\ \E t \in now .. MaxClock :
                  /\ now' = t
                  /\ start_time' = t
            /\ timeout_limit' = timeout
            /\ LET b == [board EXCEPT ![<<sx, sy>>] = START_POSITION]
               IN  /\ board' = b
                   /\ best_state' = update_best_state(best_state, b, START_POSITION)
            /\ stack' = << Frame(sx, sy, START_POSITION + 1, 0) >>
            /\ pc' = "searching"
            /\ result' = "none"
            /\ ret' = "none"
            /\ UNCHANGED << height, width, stats, first_run >>
    /\ UNCHANGED ctor_args

\* The timeout check placed after the statistics of the call are updated.
TimeoutFiresLate ==
    /\ pc = "searching"
    /\ stack # << >>
    /\ Top.at = "entry"
    /\ \E t \in now .. MaxClock :
          /\ now' = t
          /\ TimedOut(t, start_time, timeout_limit)
    /\ stats' = [stats EXCEPT !.max_depth = Max(stats.max_depth, Top.depth),
                              !.total_attempts = stats.total_attempts + 1,
                              !.timeout_occurred = TRUE]
    /\ pc' = "raising"
    /\ UNCHANGED << ctor_args, height, width, board, best_state, start_time,
                    timeout_limit, stack, ret, solve_args, result, calls,
                    first_run >>

\* solve_recursive, the timeout check at its entry when it fires.
TimeoutFires ==
    /\ pc = "searching"
    /\ stack # << >>
    /\ Top.at = "entry"
    /\ \E t \in now .. MaxClock :
          /\ now' = t
          /\ TimedOut(t, start_time, timeout_limit)
    /\ stats' = [stats EXCEPT !.timeout_occurred = TRUE]
    /\ pc' = "raising"
    /\ UNCHANGED << ctor_args, height, width, board, best_state, start_time,
                    timeout_limit, stack, ret, solve_args, result, calls,
                    first_run >>

\* solve_recursive entered, the candidates taken in an order that depends on
\* the clock reading.
EnterCallClockOrder ==
    /\ pc = "searching"
    /\ stack # << >>
    /\ Top.at = "entry"
    /\ \E t \in now .. MaxClock :
          /\ now' = t
          /\ ~TimedOut(t, start_time, timeout_limit)
    /\ stats' = [stats EXCEPT !.max_depth = Max(stats.max_depth, Top.depth),
                              !.total_attempts = stats.total_attempts + 1]
    /\ IF TourComplete(Top.move_num, height, width)
       THEN /\ stack' = Pop
            /\ ret' = "True"
       ELSE /\ LET m == get_possible_moves(board, height, width, Top.x, Top.y)
               IN  stack' = SetTop([Top EXCEPT
                       !.at = "loop",
                       !.moves = IF now' > start_time
                                 THEN [k \in 1 .. Len(m) |-> m[Len(m) + 1 - k]]
                                 ELSE m,
                       !.i = 1])
            /\ ret' = "none"
    /\ UNCHANGED << pc, ctor_args, height, width, board, best_state, start_time,
                    timeout_limit, solve_args, result, calls, first_run >>

\* solve_recursive, from its entry to the head of its loop (or to its
\* return of True when every cell has been visited).
EnterCall ==
    /\ pc = "searching"
    /\ stack # << >>
    /\ Top.at = "entry"
    /\ \E t \in now .. MaxClock :
          /\ now' = t
          /\ ~TimedOut(t, start_time, timeout_limit)
    /\ stats' = [stats EXCEPT !.max_depth = Max(stats.max_depth, Top.depth),
                              !.total_attempts = stats.total_attempts + 1]
    /\ IF TourComplete(Top.move_num, height, width)
       THEN /\ stack' = Pop
            /\ ret' = "True"
       ELSE /\ stack' = SetTop([Top EXCEPT
                   !.at = "loop",
                   !.moves = get_possible_moves(board, height, width, Top.x, Top.y),
                   !.i = 1])
            /\ ret' = "none"
    /\ UNCHANGED << pc, ctor_args, height, width, board, best_state, start_time,
                    timeout_limit, solve_args, result, calls, first_run >>

\* One iteration of the loop without the call of update_best_state.
PlaceNoUpdate ==
    /\ pc = "searching"
    /\ stack # << >>
    /\ Top.at = "loop"
    /\ Top.i <= Len(Top.moves)
    /\ LET next_x == Top.moves[Top.i][2]
           next_y == Top.moves[Top.i][3]
       IN  /\ board' = [board EXCEPT ![<<next_x, next_y>>] = Top.move_num]
           /\ stack' = Append(SetTop([Top EXCEPT !.at = "call"]),
                              Frame(next_x, next_y, Top.move_num + 1, Top.depth + 1))
    /\ ret' = "none"
    /\ UNCHANGED << pc, ctor_args, height, width, best_state, stats, start_time,
                    timeout_limit, now, solve_args, result, calls, first_run >>

\* One iteration of the loop, up to the recursive call.
Place ==
    /\ pc = "searching"
    /\ stack # << >>
    /\ Top.at = "loop"
    /\ Top.i <= Len(Top.moves)
    /\ LET next_x == Top.moves[Top.i][2]
           next_y == Top.moves[Top.i][3]
           b == [board EXCEPT ![<<next_x, next_y>>] = Top.move_num]
       IN  /\ board' = b
           /\ best_state' = update_best_state(best_state, b, Top.move_num)
           /\ stack' = Append(SetTop([Top EXCEPT !.at = "call"]),
                              Frame(next_x, next_y, Top.move_num + 1, Top.depth + 1))
    /\ ret' = "none"
    /\ UNCHANGED << pc, ctor_args, height, width, stats, start_time,
                    timeout_limit, now, solve_args, result, calls, first_run >>

\* The loop has no candidate left and is run again from its first candidate.
ExhaustedRescans ==
    /\ pc = "searching"
    /\ stack # << >>
    /\ Top.at = "loop"
    /\ Top.i > Len(Top.moves)
    /\ stack' = SetTop([Top EXCEPT !.i = 1])
    /\ ret' = "none"
    /\ UNCHANGED << pc, ctor_args, height, width, board, best_state, stats,
                    start_time, timeout_limit, now, solve_args, result, calls,
                    first_run >>

\* The loop has no candidate left: return False.
Exhausted ==
    /\ pc = "searching"
    /\ stack # << >>
    /\ Top.at = "loop"
    /\ Top.i > Len(Top.moves)
    /\ stack' = Pop
    /\ ret' = "False"
    /\ UNCHANGED << pc, ctor_args, height, width, board, best_state, stats,
                    start_time, timeout_limit, now, solve_args, result, calls,
                    first_run >>

\* The recursive call returned True and the placement is undone all the same.
PropagateUndo ==
    /\ pc = "searching"
    /\ stack # << >>
    /\ Top.at = "call"
    /\ ret = "True"
    /\ board' = [board EXCEPT ![<<Top.moves[Top.i][2], Top.moves[Top.i][3]>>] = UNVISITED]
    /\ stats' = [stats EXCEPT !.backtracks = stats.backtracks + 1]
    /\ stack' = Pop
    /\ UNCHANGED << pc, ctor_args, height, width, best_state, start_time,
                    timeout_limit, now, ret, solve_args, result, calls,
                    first_run >>

\* The recursive call returned True: return True at once.
Propagate ==
    /\ pc = "searching"
    /\ stack # << >>
    /\ Top.at = "call"
    /\ ret = "True"
    /\ stack' = Pop
    /\ UNCHANGED << pc, ctor_args, height, width, board, best_state, stats,
                    start_time, timeout_limit, now, ret, solve_args, result,
                    calls, first_run >>

\* The recursive call returned False and the placement is left on the board.
BacktrackNoUndo ==
    /\ pc = "searching"
    /\ stack # << >>
    /\ Top.at = "call"
    /\ ret = "False"
    /\ stats' = [stats EXCEPT !.backtracks = stats.backtracks + 1]
    /\ stack' = SetTop([Top EXCEPT !.at = "loop", !.i = Top.i + 1])
    /\ ret' = "none"
    /\ UNCHANGED << pc, ctor_args, height, width, board, best_state, start_time,
                    timeout_limit, now, solve_args, result, calls, first_run >>

\* The recursive call returned False and its attempt is taken back.
BacktrackRollsBack ==
    /\ pc = "searching"
    /\ stack # << >>
    /\ Top.at = "call"
    /\ ret = "False"
    /\ board' = [board EXCEPT ![<<Top.moves[Top.i][2], Top.moves[Top.i][3]>>] = UNVISITED]
    /\ stats' = [stats EXCEPT !.backtracks = stats.backtracks + 1,
                              !.total_attempts = stats.total_attempts - 1]
    /\ stack' = SetTop([Top EXCEPT !.at = "loop", !.i = Top.i + 1])
    /\ ret' = "none"
    /\ UNCHANGED << pc, ctor_args, height, width, best_state, start_time,
                    timeout_limit, now, solve_args, result, calls, first_run >>

\* The backtrack step with best_state.board sharing its rows with the working
\* board: the reset shows in both.
BacktrackAliased ==
    /\ pc = "searching"
    /\ stack # << >>
    /\ Top.at = "call"
    /\ ret = "False"
    /\ board' = [board EXCEPT ![<<Top.moves[Top.i][2], Top.moves[Top.i][3]>>] = UNVISITED]
    /\ best_state' = [best_state EXCEPT
           !.board[<<Top.moves[Top.i][2], Top.moves[Top.i][3]>>] = UNVISITED]
    /\ stats' = [stats EXCEPT !.backtracks = stats.backtracks + 1]
    /\ stack' = SetTop([Top EXCEPT !.at = "loop", !.i = Top.i + 1])
    /\ ret' = "none"
    /\ UNCHANGED << pc, ctor_args, height, width, start_time,
                    timeout_limit, now, solve_args, result, calls, first_run >>

\* The backtrack step of a search that tries only the first candidate.
BacktrackGivesUp ==
    /\ pc = "searching"
    /\ stack # << >>
    /\ Top.at = "call"
    /\ ret = "False"
    /\ board' = [board EXCEPT ![<<Top.moves[Top.i][2], Top.moves[Top.i][3]>>] = UNVISITED]
    /\ stats' = [stats EXCEPT !.backtracks = stats.backtracks + 1]
    /\ stack' = SetTop([Top EXCEPT !.at = "loop", !.i = Len(Top.moves) + 1])
    /\ ret' = "none"
    /\ UNCHANGED << pc, ctor_args, height, width, best_state, start_time,
                    timeout_limit, now, solve_args, result, calls, first_run >>

\* The recursive call returned False: undo the placement, next candidate.
Backtrack ==
    /\ pc = "searching"
    /\ stack # << >>
    /\ Top.at = "call"
    /\ ret = "False"
    /\ board' = [board EXCEPT ![<<Top.moves[Top.i][2], Top.moves[Top.i][3]>>] = UNVISITED]
    /\ stats' = [stats EXCEPT !.backtracks = stats.backtracks + 1]
    /\ stack' = SetTop([Top EXCEPT !.at = "loop", !.i = Top.i + 1])
    /\ ret' = "none"
    /\ UNCHANGED << pc, ctor_args, height, width, best_state, start_time,
                    timeout_limit, now, solve_args, result, calls, first_run >>

\* What a solve() call leaves behind, as its caller can observe it.
Outcome(res, bs, st) ==
    [args |-> solve_args, result |-> res, best_state |-> bs,
     backtracks |-> st.backtracks, max_depth |-> st.max_depth,
     total_attempts |-> st.total_attempts,
     timeout_occurred |-> st.timeout_occurred]

\* solve(): the rest of it, given the outcome of the search.
Finish(found) ==
    /\ \E t \in now .. MaxClock :
          /\ now' = t
          /\ stats' = [stats EXCEPT !.time_elapsed = t - start_time]
    /\ stack' = << >>
    /\ ret' = "none"
    /\ result' = found
    /\ pc' = "idle"
    /\ first_run' = IF calls = 1 THEN Outcome(found, best_state, stats)
                    ELSE first_run
    /\ UNCHANGED << ctor_args, height, width, board, best_state, start_time,
                    timeout_limit, solve_args, calls >>

\* solve(): the outermost solve_recursive returned.
SearchReturns ==
    /\ pc = "searching"
    /\ stack = << >>
    /\ Finish(ret)

\* solve() without its except clause: the TimeoutError reaches the caller.
EscapeTimeout ==
    /\ pc = "raising"
    /\ stack' = << >>
    /\ ret' = "none"
    /\ result' = "TimeoutError"
    /\ pc' = "idle"
    /\ UNCHANGED << ctor_args, height, width, board, best_state, stats,
                    start_time, timeout_limit, now, solve_args, calls,
                    first_run >>

\* solve(): the TimeoutError unwinds every pending frame and is caught.
CatchTimeout ==
    /\ pc = "raising"
    /\ Finish("False")

----------------------------------------------------------------------------
Timeouts == {0, DefaultTimeout}

NextOf(cells, solves) ==
    \/ \E h, w \in 0 .. MaxDim : h * w <= cells /\ Construct(h, w)
    \/ \E sx \in -1 .. height, sy \in -1 .. width, t \in Timeouts :
          calls < solves /\ Solve(sx, sy, t)
    \/ TimeoutFires
    \/ EnterCall
    \/ Place
    \/ Exhausted
    \/ Propagate
    \/ Backtrack
    \/ SearchReturns
    \/ CatchTimeout

\* One solve() call on a freshly constructed solver.
Next == NextOf(MaxCells, 1)

Spec == Init /\ [][Next]_vars

\* Repeated solve() calls on one solver instance.
NextAgain == NextOf(MaxCells, MaxSolves)

SpecAgain == Init /\ [][NextAgain]_vars

\* The steps of a search in progress and of its return to the caller.
SearchStep ==
    \/ TimeoutFires
    \/ EnterCall
    \/ Place
    \/ Exhausted
    \/ Propagate
    \/ Backtrack
    \/ SearchReturns
    \/ CatchTimeout

\* The program as main() drives it: solve(start_x=0, start_y=0, ...) on a
\* board of any side up to MaxSide; on the boards of at most MaxCells cells
\* the call is repeated on the same instance.
NextMain ==
    \/ \E h, w \in 0 .. MaxSide :
          (h - w <= MaxSkew /\ w - h <= MaxSkew) /\ Construct(h, w)
    \/ \E t \in Timeouts :
          /\ calls = 0 \/ (calls < MaxSolves /\ height * width <= MaxCells)
          /\ Solve(0, 0, t)
    \/ SearchStep

SpecMain == Init /\ [][NextMain]_vars

\* self.board, self.best_state and self.stats are as __init__ leaves them.
Fresh ==
    /\ board = EmptyBoard(height, width)
    /\ best_state = [board |-> EmptyBoard(height, width),
                     moves_count |-> START_POSITION]
    /\ stats = SolutionStats

\* KnightsTour(height, width) once more: a new instance of the same size
\* takes the place of one whose solve() has returned without a timeout.
Rebuild ==
    /\ pc = "idle"
    /\ result \in {"True", "False"}
    /\ ~stats.timeout_occurred
    /\ calls < MaxSolves
    /\ board' = EmptyBoard(height, width)
    /\ best_state' = [board |-> EmptyBoard(height, width),
                      moves_count |-> START_POSITION]
    /\ stats' = SolutionStats
    /\ start_time' = 0
    /\ timeout_limit' = DefaultTimeout
    /\ result' = "none"
    /\ UNCHANGED << pc, ctor_args, height, width, now, stack, ret, solve_args,
                    calls, first_run >>

\* Separate runs: every solve() call is made on a fresh instance, and a later
\* run starts where the first one started.
NextTwice ==
    \/ \E h, w \in 0 .. MaxDim : h * w <= MaxCells /\ Construct(h, w)
    \/ \E sx \in -1 .. height, sy \in -1 .. width, t \in Timeouts :
          /\ calls < MaxSolves
          /\ Fresh
          /\ IF first_run = NotAllocated
             THEN TRUE
             ELSE /\ first_run.args.start_x = sx
                  /\ first_run.args.start_y = sy
          /\ Solve(sx, sy, t)
    \/ Rebuild
    \/ SearchStep

SpecTwice == Init /\ [][NextTwice]_vars

\* The interpreter runs a call of solve() on: a search in progress takes its
\* next step. Constructing a solver and calling solve() are the caller's choice.
SpecLive == Init /\ [][Next]_vars /\ WF_vars(SearchStep)

----------------------------------------------------------------------------
(***************************************************************************)
(* The variant of src/Horse.py: the same solver with no timeout, no        *)
(* statistics and no clock.  Its is_safe, count_onward_moves,              *)
(* get_possible_moves and update_best_state (lines 60-110) are the text of *)
(* lines 98-148 of src/Horse/Horse.py, and the operators above stand for   *)
(* both.  A run is a function of the board size and the start, computed    *)
(* here over a record st of the solver's board, its best_state, the        *)
(* working boards written so far (trace) and the value returned (found).   *)
(***************************************************************************)
RECURSIVE PlainSolveRecursive(_, _, _, _, _, _)
RECURSIVE PlainLoop(_, _, _, _, _, _)
RECURSIVE PlainAfterCall(_, _, _, _, _, _)

\* Board b with value v written into cell c.
WithCell(b, c, v) == (c :> v) @@ b

\* self.board[next_x][next_y] = move_num; self.update_best_state(move_num)
PlainPlace(st, next, move_num) ==
    [board |-> WithCell(st.board, next, move_num),
     best_state |-> update_best_state(st.best_state,
                        WithCell(st.board, next, move_num), move_num),
     trace |-> Append(st.trace, WithCell(st.board, next, move_num)),
     found |-> FALSE]

\* self.board[next_x][next_y] = UNVISITED
PlainUndo(st, next) ==
    [st EXCEPT !.board = WithCell(st.board, next, UNVISITED),
               !.trace = Append(st.trace, WithCell(st.board, next, UNVISITED))]

\* The for loop of solve_recursive from its i-th candidate on.
PlainLoop(h, w, st, moves, i, move_num) ==
    IF i > Len(moves)
    THEN [st EXCEPT !.found = FALSE]
    ELSE PlainAfterCall(h, w,
             PlainSolveRecursive(h, w,
                 PlainPlace(st, <<moves[i][2], moves[i][3]>>, move_num),
                 moves[i][2], moves[i][3], move_num + 1),
             moves, i, move_num)

\* The loop body after the recursive call for the i-th candidate has returned.
PlainAfterCall(h, w, after, moves, i, move_num) ==
    IF after.found
    THEN after
    ELSE PlainLoop(h, w, PlainUndo(after, <<moves[i][2], moves[i][3]>>),
                   moves, i + 1, move_num)

\* solve_recursive(x, y, move_num) of src/Horse.py.
PlainSolveRecursive(h, w, st, x, y, move_num) ==
    IF TourComplete(move_num, h, w)
    THEN [st EXCEPT !.found = TRUE]
    ELSE PlainLoop(h, w, st, get_possible_moves(st.board, h, w, x, y), 1, move_num)

\* solve(start_x, start_y) of src/Horse.py on a new KnightsTour(h, w), for a
\* start on the board.
PlainSolve(h, w, sx, sy) ==
    LET b == WithCell(EmptyBoard(h, w), <<sx, sy>>, START_POSITION)
    IN  PlainSolveRecursive(h, w,
            [board |-> b,
             best_state |-> update_best_state(
                 [board |-> EmptyBoard(h, w), moves_count |-> START_POSITION],
                 b, START_POSITION),
             trace |-> << b >>,
             found |-> FALSE],
            sx, sy, START_POSITION + 1)

----------------------------------------------------------------------------
(***************************************************************************)
(* Vocabulary of the properties.                                           *)
(***************************************************************************)
Abs(n) == IF n < 0 THEN -n ELSE n

\* The cells of board b that hold the value k.
CellsWith(b, k) == {c \in DOMAIN b : b[c] = k}

\* Cells c and d are one knight's move apart.
KnightStep(c, d) ==
    {Abs(c[1] - d[1]), Abs(c[2] - d[2])} = {1, 2}

\* A solve() call has run its search and returned a boolean.
Returned == pc = "idle" /\ result \in {"True", "False"}

\* b is a knight's tour of the h x w board that starts at (sx, sy).
ValidTour(b, h, w, sx, sy) ==
    /\ DOMAIN b = Cells(h, w)
    /\ \A k \in 1 .. h * w : Cardinality(CellsWith(b, k)) = 1
    /\ b[<<sx, sy>>] = 1
    /\ \A k \in 1 .. h * w - 1 :
          \A c \in CellsWith(b, k), d \in CellsWith(b, k + 1) : KnightStep(c, d)

\* The cells of b hold UNVISITED or 1..n, each of 1..n exactly once.
NumberedTo(b, n) ==
    /\ \A c \in DOMAIN b : b[c] = UNVISITED \/ b[c] \in 1 .. n
    /\ \A k \in 1 .. n : Cardinality(CellsWith(b, k)) = 1

----------------------------------------------------------------------------
\* C1: when solve() has returned, it returned True exactly when the best
\* state counts height*width moves (a complete tour was found).
C1_TrueIffComplete ==
    Returned => (result = "True" <=> best_state.moves_count = height * width)

\* C2: when solve() on a fresh solver returns True, the best board is a
\* knight's tour: each of 1..height*width in exactly one cell, 1 at the start
\* cell, consecutive numbers one knight's move apart.
C2_TrueIsTour ==
    (Returned /\ result = "True") =>
        ValidTour(best_state.board, height, width,
                  solve_args.start_x, solve_args.start_y)

\* C2 witness: a solve() call on a fresh solver has returned True.
C2_Witness == Returned /\ result = "True" /\ calls = 1

\* C3: after solve() returns, the best board holds UNVISITED or 1..moves_count,
\* each of 1..moves_count in exactly one cell.
C3_BestBoardNumbered ==
    Returned => NumberedTo(best_state.board, best_state.moves_count)

\* C4: after solve() returns, every cell that is UNVISITED in the best board
\* is UNVISITED in the working board.
C4_NoLeakedPlacement ==
    Returned =>
        \A c \in Cells(height, width) :
            best_state.board[c] = UNVISITED => board[c] = UNVISITED

\* C5: when the timeout fires, the TimeoutError stays inside solve(): the
\* call returns False with timeout_occurred set, and best_state is, from the
\* moment the timeout fires to the return, the deepest state recorded so far.
C5_TimeoutKeepsBest ==
    [][ /\ pc' = "raising" =>
              /\ best_state' = best_state
              /\ \A c \in Cells(height, width) :
                    board[c] <= best_state.moves_count
        /\ pc = "raising" =>
              /\ pc' = "idle"
              /\ result' = "False"
              /\ stats'.timeout_occurred
              /\ best_state' = best_state ]_vars

\* C5 witness: a search that had placed moves was aborted by the timeout and
\* solve() has returned.
C5_Witness ==
    /\ Returned
    /\ calls = 1
    /\ stats.timeout_occurred
    /\ best_state.moves_count > START_POSITION

\* C6: a solve() call that returns False leaves timeout_occurred True exactly
\* when the timeout aborted the search of that call.
C6_FlagTellsTimeout ==
    [][ (pc \in {"searching", "raising"} /\ pc' = "idle" /\ result' = "False")
            => (stats'.timeout_occurred <=> pc = "raising") ]_vars

\* C7: a further solve() call on the same instance, in which no timeout fires,
\* ends with the result, best state and counters that the same call left on
\* the fresh instance.
C7_ResolveLikeFresh ==
    ( /\ Returned
      /\ calls > 1
      /\ first_run # NotAllocated
      /\ first_run.args = solve_args
      /\ ~stats.timeout_occurred )
        => Outcome(result, best_state, stats) = first_run

\* The place of candidate m among the offsets of KNIGHT_MOVES, from (x, y).
OffsetIndex(x, y, m) ==
    CHOOSE k \in 1 .. Len(KNIGHT_MOVES) :
        m[2] = x + KNIGHT_MOVES[k][1] /\ m[3] = y + KNIGHT_MOVES[k][2]

\* The solver has a board.
Constructed == pc \in {"idle", "searching", "raising"}

\* C8 as stated: get_possible_moves is ascending by degree, and candidates
\* of equal degree come in the order of the KNIGHT_MOVES offsets.
C8_TiesInOffsetOrder ==
    Constructed =>
        \A c \in Cells(height, width) :
            \A m \in {get_possible_moves(board, height, width, c[1], c[2])} :
                \A i, j \in 1 .. Len(m) :
                    i < j =>
                        /\ m[i][1] <= m[j][1]
                        /\ m[i][1] = m[j][1] =>
                              OffsetIndex(c[1], c[2], m[i]) < OffsetIndex(c[1], c[2], m[j])

\* The free cells one knight's move away from cell c.
FreeNeighbours(c) ==
    {d \in Cells(height, width) : KnightStep(c, d) /\ board[d] = UNVISITED}

\* C8 as amended: get_possible_moves holds the free cells one knight's move
\* away, each once with its onward degree, ascending by degree, and candidates
\* of equal degree come in ascending order of (next_x, next_y).
C8_TiesInCellOrder ==
    Constructed =>
        \A c \in Cells(height, width) :
            \A m \in {get_possible_moves(board, height, width, c[1], c[2])} :
                /\ Len(m) = Cardinality(FreeNeighbours(c))
                /\ {<<m[i][2], m[i][3]>> : i \in 1 .. Len(m)} = FreeNeighbours(c)
                /\ \A i, j \in 1 .. Len(m) :
                      i < j =>
                          /\ m[i][1] <= m[j][1]
                          /\ m[i][1] = m[j][1] =>
                                \/ m[i][2] < m[j][2]
                                \/ m[i][2] = m[j][2] /\ m[i][3] < m[j][3]

\* C8 witness: somewhere on the board two candidates of equal degree come in
\* the opposite order of their offsets in KNIGHT_MOVES.
C8_Witness ==
    /\ Constructed
    /\ \E c \in Cells(height, width) :
          \E m \in {get_possible_moves(board, height, width, c[1], c[2])} :
              \E i, j \in 1 .. Len(m) :
                  /\ i < j
                  /\ m[i][1] = m[j][1]
                  /\ OffsetIndex(c[1], c[2], m[i]) > OffsetIndex(c[1], c[2], m[j])

\* (sx, sy) is no cell of the board.
OutsideBoard(sx, sy) == <<sx, sy>> \notin Cells(height, width)

\* C9: a solve() call with a start outside the board raises ValueError and
\* leaves board, best_state, stats, timeout_limit and start_time as they were.
C9_BadStartRejected ==
    [][ (calls' = calls + 1 /\ OutsideBoard(solve_args'.start_x, solve_args'.start_y))
            => /\ result' = "ValueError"
               /\ pc' = "idle"
               /\ stack' = << >>
               /\ UNCHANGED << board, best_state, stats, timeout_limit,
                               start_time >> ]_vars

\* C9 witness: solve() was called with a start outside the board.
C9_Witness ==
    /\ pc = "idle"
    /\ calls = 1
    /\ result = "ValueError"
    /\ OutsideBoard(solve_args.start_x, solve_args.start_y)

\* C10: the constructor rejects height < 3 or width < 3 with ValueError and
\* allocates nothing; for height >= 3 and width >= 3 it succeeds with a
\* height x width board of UNVISITED cells.
C10_ConstructorValidates ==
    [][ pc = "new" =>
          IF ctor_args'.height < 3 \/ ctor_args'.width < 3
          THEN /\ pc' = "rejected"
               /\ result' = "ValueError"
               /\ board' = NotAllocated
               /\ best_state' = NotAllocated
               /\ stats' = NotAllocated
          ELSE /\ pc' = "idle"
               /\ DOMAIN board' = Cells(ctor_args'.height, ctor_args'.width)
               /\ \A c \in DOMAIN board' : board'[c] = UNVISITED ]_vars

\* C10 witness: a constructor call with a dimension below 3 has failed.
C10_Witness ==
    /\ pc = "rejected"
    /\ result = "ValueError"
    /\ (ctor_args.height < 3 \/ ctor_args.width < 3)

\* C11: on a 3x3 board, from every start position, a solve() on a fresh
\* solver that ends without a timeout returns False and leaves
\* best_state.moves_count strictly below 9.
C11_ThreeByThreeFails ==
    (Returned /\ height = 3 /\ width = 3 /\ ~stats.timeout_occurred)
        => (result = "False" /\ best_state.moves_count < 9)

\* C11 witness: a 3x3 search has ended without a timeout after visiting the
\* eight border cells.
C11_Witness ==
    /\ Returned
    /\ height = 3
    /\ width = 3
    /\ ~stats.timeout_occurred
    /\ result = "False"
    /\ best_state.moves_count = 8

\* C12: on a 5x5 board, a solve() from (0, 0) on a fresh solver that ends
\* without a timeout returns True with best_state.moves_count = 25.
C12_FiveByFiveTour ==
    (/\ Returned
     /\ calls = 1
     /\ height = 5
     /\ width = 5
     /\ solve_args.start_x = 0
     /\ solve_args.start_y = 0
     /\ ~stats.timeout_occurred)
        => (result = "True" /\ best_state.moves_count = 25)

\* C12 witness: the 5x5 search from (0, 0) has returned True, every cell of
\* the best board numbered.
C12_Witness ==
    /\ Returned
    /\ calls = 1
    /\ height = 5
    /\ width = 5
    /\ solve_args.start_x = 0
    /\ solve_args.start_y = 0
    /\ ~stats.timeout_occurred
    /\ result = "True"
    /\ NumberedTo(best_state.board, 25)

\* C13: two separate runs on freshly constructed solvers of the same size,
\* from the same start position and with no timeout firing, end with the same
\* best_state.board, the same best_state.moves_count and the same
\* stats.total_attempts.
C13_RunsAgree ==
    (/\ Returned
     /\ calls > 1
     /\ first_run # NotAllocated
     /\ ~stats.timeout_occurred)
        => (/\ solve_args.start_x = first_run.args.start_x
            /\ solve_args.start_y = first_run.args.start_y
            /\ ~first_run.timeout_occurred
            /\ best_state.board = first_run.best_state.board
            /\ best_state.moves_count = first_run.best_state.moves_count
            /\ stats.total_attempts = first_run.total_attempts
            /\ result = first_run.result)

\* C13 witness: a second run has ended without a timeout after a search that
\* backtracked, its timeout argument other than that of the first run.
C13_Witness ==
    /\ Returned
    /\ calls > 1
    /\ first_run # NotAllocated
    /\ ~stats.timeout_occurred
    /\ stats.backtracks > 0
    /\ best_state.moves_count > START_POSITION
    /\ solve_args.timeout # first_run.args.timeout

\* C14: a solve() called with timeout = 0 returns False with
\* stats.timeout_occurred = True, whatever non-decreasing values the clock
\* returns between the read of start_time and the first timeout check.
C14_ZeroTimeoutAborts ==
    (Returned /\ calls = 1 /\ solve_args.timeout = 0)
        => (result = "False" /\ stats.timeout_occurred)

\* C15: on every board with min(height, width) >= 5 and height*width even, a
\* solve() from (0, 0) on a fresh solver that ends without a timeout returns
\* True with best_state.moves_count = height*width.
C15_EvenBoardsTour ==
    (/\ Returned
     /\ calls = 1
     /\ height >= 5
     /\ width >= 5
     /\ (height * width) % 2 = 0
     /\ solve_args.start_x = 0
     /\ solve_args.start_y = 0
     /\ ~stats.timeout_occurred)
        => (result = "True" /\ best_state.moves_count = height * width)

\* C15 witness: a board of even area that is not square has been toured from
\* (0, 0).
C15_Witness ==
    /\ Returned
    /\ calls = 1
    /\ height >= 5
    /\ width >= 5
    /\ height # width
    /\ (height * width) % 2 = 0
    /\ solve_args.start_x = 0
    /\ solve_args.start_y = 0
    /\ ~stats.timeout_occurred
    /\ result = "True"
    /\ NumberedTo(board, height * width)

\* C16: in every state during and after a search, whatever solve() calls were
\* made on the instance before, no two visited cells of the working board hold
\* the same move index and exactly one cell holds the value 1.
C16_IndicesUnique ==
    (pc \in {"searching", "raising"} \/ Returned)
        => /\ \A c, d \in DOMAIN board :
                 (board[c] # UNVISITED /\ board[c] = board[d]) => c = d
           /\ Cardinality(CellsWith(board, START_POSITION)) = 1

\* C17: during solve() on a fresh solver, at every entry to solve_recursive
\* with move number M, 2 <= M <= height*width + 1, the working board has
\* exactly M - 1 visited cells, they hold exactly the values 1 .. M - 1, and
\* the cell (x, y) passed to the call holds M - 1.
C17_EntryBoard ==
    (pc = "searching" /\ calls = 1 /\ stack # << >> /\ Top.at = "entry")
        => /\ Top.move_num \in 2 .. height * width + 1
           /\ Cardinality({c \in DOMAIN board : board[c] # UNVISITED})
                  = Top.move_num - 1
           /\ NumberedTo(board, Top.move_num - 1)
           /\ board[<<Top.x, Top.y>>] = Top.move_num - 1

\* C17 witness: solve_recursive is entered with a move number above 2 after
\* the search has backtracked.
C17_Witness ==
    /\ pc = "searching"
    /\ calls = 1
    /\ stack # << >>
    /\ Top.at = "entry"
    /\ Top.move_num > 2
    /\ stats.backtracks > 0

\* C18: over the lifetime of a solver best_state.moves_count never decreases,
\* and best_state.board changes only in a step where moves_count strictly
\* increases: a later path as deep as the recorded maximum leaves the recorded
\* board in place.
C18_BestOnlyGrows ==
    [][ Constructed =>
          /\ best_state'.moves_count >= best_state.moves_count
          /\ (best_state'.board # best_state.board
                 => best_state'.moves_count > best_state.moves_count) ]_vars

\* C18 witness: a move numbered as high as the recorded maximum has just been
\* placed on a board other than the recorded one.
C18_Witness ==
    /\ pc = "searching"
    /\ stack # << >>
    /\ Top.at = "entry"
    /\ Top.move_num - 1 = best_state.moves_count
    /\ board[<<Top.x, Top.y>>] = best_state.moves_count
    /\ board # best_state.board
    /\ stats.backtracks > 0

\* C19: in every step, backtrack steps included, total_attempts, backtracks
\* and max_depth do not decrease, and timeout_occurred does not change from
\* True back to False.
C19_StatsOnlyGrow ==
    [][ Constructed =>
          /\ stats'.total_attempts >= stats.total_attempts
          /\ stats'.backtracks >= stats.backtracks
          /\ stats'.max_depth >= stats.max_depth
          /\ (stats.timeout_occurred => stats'.timeout_occurred) ]_vars

\* C19 witness: a search made after a timed-out one has just backtracked.
C19_Witness ==
    /\ pc = "searching"
    /\ calls > 1
    /\ stats.timeout_occurred
    /\ stack # << >>
    /\ Top.at = "loop"
    /\ Top.i > 1
    /\ stats.backtracks > 0

\* The search statistics that count work done.
Counters(st) == << st.total_attempts, st.backtracks, st.max_depth >>

\* C20: every solve_recursive call reads the clock first: when the time
\* elapsed exceeds the limit the timeout fires before the call updates a
\* statistic or places a move, and otherwise the call goes on; once the
\* timeout has fired, no cell is written or reset, best_state is not updated
\* and total_attempts, backtracks and max_depth are not incremented before
\* solve() returns.
C20_TimeoutFirstThenNothing ==
    [][ /\ (pc = "searching" /\ stack # << >> /\ Top.at = "entry")
           => IF now' - start_time > timeout_limit
              THEN /\ pc' = "raising"
                   /\ stats'.timeout_occurred
                   /\ Counters(stats') = Counters(stats)
                   /\ board' = board
                   /\ best_state' = best_state
              ELSE /\ pc' = "searching"
                   /\ stats'.total_attempts = stats.total_attempts + 1
        /\ pc = "raising"
           => /\ pc' = "idle"
              /\ result' = "False"
              /\ Counters(stats') = Counters(stats)
              /\ board' = board
              /\ best_state' = best_state ]_vars

\* C20 witness: the timeout has fired in a call made after the search had
\* backtracked, with moves still on the board.
C20_Witness ==
    /\ pc = "raising"
    /\ stats.timeout_occurred
    /\ stats.backtracks > 0
    /\ Cardinality({c \in DOMAIN board : board[c] # UNVISITED}) > 2

\* C21: once a solve_recursive call has returned True, every step up to the
\* return of solve() leaves the board and the backtracks counter as they are
\* and hands True on; and when solve() returns True the working board equals
\* best_state.board and has no UNVISITED cell.
C21_SuccessUnwinds ==
    [][ /\ (pc = "searching" /\ ret = "True")
           => /\ board' = board
              /\ stats'.backtracks = stats.backtracks
              /\ (pc' = "searching" => ret' = "True")
              /\ (pc' = "idle" => result' = "True")
        /\ (pc = "searching" /\ pc' = "idle" /\ result' = "True")
           => /\ board' = best_state'.board
              /\ \A c \in DOMAIN board' : board'[c] # UNVISITED ]_vars

\* C21 witness: True is on its way up through pending frames, the board full.
C21_Witness ==
    /\ pc = "searching"
    /\ ret = "True"
    /\ Len(stack) > 1
    /\ Top.at = "call"
    /\ board = best_state.board
    /\ \A c \in DOMAIN board : board[c] # UNVISITED

\* C22: when solve() on a fresh solver returns False with no timeout, every
\* placement has been undone: the start cell holds 1 and every other cell of
\* the working board is UNVISITED.
C22_ExhaustionUndoesAll ==
    (Returned /\ calls = 1 /\ result = "False" /\ ~stats.timeout_occurred)
        => \A c \in DOMAIN board :
              board[c] = IF c = <<solve_args.start_x, solve_args.start_y>>
                         THEN 1
                         ELSE UNVISITED

\* C22 witness: a search that placed and undone moves has returned False
\* with no timeout.
C22_Witness ==
    /\ Returned
    /\ calls = 1
    /\ result = "False"
    /\ ~stats.timeout_occurred
    /\ stats.backtracks > 1
    /\ best_state.moves_count > 2

\* C23: best_state.board is a snapshot of its own: a step that resets a cell
\* of the working board to UNVISITED, or writes into it a move number that
\* does not exceed the recorded count, leaves best_state.board and
\* best_state.moves_count unchanged.
C23_SnapshotIndependent ==
    [][ Constructed =>
          \A c \in DOMAIN board :
              (/\ board'[c] # board[c]
               /\ (board'[c] = UNVISITED \/ board'[c] <= best_state.moves_count))
                  => best_state' = best_state ]_vars

\* C23 witness: a cell numbered in best_state.board has just been reset on the
\* working board by a backtrack step.
C23_Witness ==
    /\ pc = "searching"
    /\ stack # << >>
    /\ Top.at = "loop"
    /\ Top.i > 1
    /\ board[<<Top.moves[Top.i - 1][2], Top.moves[Top.i - 1][3]>>] = UNVISITED
    /\ best_state.board[<<Top.moves[Top.i - 1][2], Top.moves[Top.i - 1][3]>>]
           # UNVISITED

\* The UNVISITED cells of board b (h x w) one knight's move away from cell c.
FreeAround(b, h, w, c) ==
    {d \in Cells(h, w) : KnightStep(c, d) /\ b[d] = UNVISITED}

\* C24: on every board and from every position, get_possible_moves returns
\* one entry for each knight-move neighbour that is on the board and
\* UNVISITED and no other entry, the degree of an entry is the number of
\* UNVISITED neighbours of its cell on the current board, a value in 0 .. 8;
\* and the step that computes the list leaves the board as it is.
C24_MovesAreFreeNeighbours ==
    [][ /\ Constructed' =>
            \A c \in Cells(height', width') :
                \A m \in {get_possible_moves(board', height', width', c[1], c[2])} :
                    /\ Len(m) = Cardinality(FreeAround(board', height', width', c))
                    /\ {<<m[i][2], m[i][3]>> : i \in 1 .. Len(m)}
                           = FreeAround(board', height', width', c)
                    /\ \A i \in 1 .. Len(m) :
                          /\ m[i][1] = Cardinality(FreeAround(board', height', width',
                                                              <<m[i][2], m[i][3]>>))
                          /\ m[i][1] \in 0 .. 8
        /\ (pc = "searching" /\ stack # << >> /\ Top.at = "entry")
              => board' = board ]_vars

\* C24 witness: a call has computed a list of several candidates, one of them
\* of degree 0 and one of a higher degree.
C24_Witness ==
    /\ pc = "searching"
    /\ stack # << >>
    /\ Top.at = "loop"
    /\ Top.i = 1
    /\ Len(Top.moves) > 1
    /\ Top.moves[1][1] = 0
    /\ Top.moves[Len(Top.moves)][1] > 0

\* C25: a solve() call that has started its search eventually returns, the
\* runs in which the timeout never fires included: the search over the finite
\* board ends by success or by exhausting every branch.
C25_SolveReturns == (pc = "searching") ~> (pc = "idle")

\* C25 witness: a search under a timeout the clock cannot reach has returned
\* after exhausting every branch.
C25_Witness ==
    /\ Returned
    /\ solve_args.timeout = DefaultTimeout
    /\ ~stats.timeout_occurred
    /\ result = "False"
    /\ stats.total_attempts > 1

\* The number of cells of the longest simple knight path on the h x w board
\* that goes on from cell c without entering a cell of seen (c is in seen).
RECURSIVE LongestFrom(_, _, _, _)
LongestFrom(h, w, c, seen) ==
    LET next == {d \in Cells(h, w) \ seen : KnightStep(c, d)}
        RECURSIVE Best(_)
        Best(S) == IF S = {} THEN 0
                   ELSE LET d == CHOOSE e \in S : TRUE
                            l == LongestFrom(h, w, d, seen \cup {d})
                            r == Best(S \ {d})
                        IN  IF l > r THEN l ELSE r
    IN  1 + Best(next)

\* C26: when solve() on a fresh solver returns False with no timeout, the
\* board has no knight's tour from the start cell, and best_state.moves_count
\* is the length of the longest simple knight path from that cell.
C26_SearchExhaustive ==
    (Returned /\ calls = 1 /\ result = "False" /\ ~stats.timeout_occurred)
        => \A c \in {<<solve_args.start_x, solve_args.start_y>>} :
              \A l \in {LongestFrom(height, width, c, {c})} :
                  /\ l < height * width
                  /\ best_state.moves_count = l

\* C26 witness: a search on a board that is not square has returned False
\* with no timeout, its best path shorter than the board.
C26_Witness ==
    /\ Returned
    /\ calls = 1
    /\ result = "False"
    /\ ~stats.timeout_occurred
    /\ height # width
    /\ best_state.moves_count > 2
    /\ best_state.moves_count < height * width

\* C27: in every state of a solve() call on a fresh solver, whenever k and
\* k + 1 both occur in best_state.board, their cells are one knight's move
\* apart: the recorded best result is a connected knight path.
C27_BestIsKnightPath ==
    (Constructed /\ calls <= 1)
        => \A c, d \in DOMAIN best_state.board :
              (/\ best_state.board[c] # UNVISITED
               /\ best_state.board[d] = best_state.board[c] + 1)
                  => KnightStep(c, d)

\* C27 witness: the search has backtracked away from its recorded best path
\* of more than two cells.
C27_Witness ==
    /\ pc = "searching"
    /\ calls = 1
    /\ best_state.moves_count > 2
    /\ NumberedTo(best_state.board, best_state.moves_count)
    /\ \E c \in DOMAIN board :
          board[c] = UNVISITED /\ best_state.board[c] # UNVISITED

\* C28: for a solve() call on a fresh solver, backtracks <= total_attempts in
\* every state; when the search has ended by exhaustion, backtracks =
\* total_attempts - 1; when it has ended in success, total_attempts -
\* backtracks = height*width.
C28_StatsAccounting ==
    (Constructed /\ calls <= 1)
        => /\ stats.backtracks <= stats.total_attempts
           /\ (Returned /\ result = "False" /\ ~stats.timeout_occurred)
                 => stats.backtracks = stats.total_attempts - 1
           /\ (Returned /\ result = "True")
                 => stats.total_attempts - stats.backtracks = height * width

\* C28 witness: a search of several calls has ended by exhaustion.
C28_Witness ==
    /\ Returned
    /\ calls = 1
    /\ result = "False"
    /\ ~stats.timeout_occurred
    /\ stats.total_attempts > 2
    /\ stats.backtracks > 1
    /\ stats.max_depth > 1

\* C29: in every state of a solve() call on a fresh solver, max_depth <=
\* height*width - 1 and max_depth <= max(0, best_state.moves_count - 1); and
\* when solve() has returned without a timeout the two are equal.
C29_DepthBelowBest ==
    (Constructed /\ calls <= 1)
        => /\ stats.max_depth <= height * width - 1
           /\ stats.max_depth <= Max(0, best_state.moves_count - 1)
           /\ (Returned /\ ~stats.timeout_occurred)
                 => stats.max_depth = Max(0, best_state.moves_count - 1)

\* C29 witness: a timeout has fired right after the deepest placement, so
\* that max_depth stays below moves_count - 1.
C29_Witness ==
    /\ Returned
    /\ calls = 1
    /\ stats.timeout_occurred
    /\ stats.max_depth > 0
    /\ stats.max_depth < best_state.moves_count - 1

\* The number of working-board states the search of the current solve() call
\* has written so far: the start cell, one per placement and one per undo.
\* Every call entered was counted in total_attempts; a call not yet entered,
\* or cut off at its entry by the timeout, has its placement on the board.
Written ==
    stats.total_attempts + stats.backtracks
        + (IF \/ (pc \in {"searching", "raising"} /\ stack # << >>
                     /\ Top.at = "entry")
              \/ (pc = "idle" /\ stats.timeout_occurred)
           THEN 1 ELSE 0)

\* The runs of src/Horse.py on the boards of Spec, one for each start, each
\* paired with its arguments.
PlainRuns ==
    {<<a, PlainSolve(a[1], a[2], a[3], a[4])>> :
        a \in {<<h, w, sx, sy>> \in (MinDim .. MaxDim) \X (MinDim .. MaxDim)
                                     \X (0 .. MaxDim) \X (0 .. MaxDim) :
                  h * w <= MaxCells /\ sx < h /\ sy < w}}

\* The run of src/Horse.py on a board of the current size from the start of
\* the current solve() call.
PlainRun ==
    (CHOOSE r \in PlainRuns :
        r[1] = <<height, width, solve_args.start_x, solve_args.start_y>>)[2]

\* C30: for every board size and start, the solve() of src/Horse.py and a
\* solve() of src/Horse/Horse.py on a fresh solver go through the same
\* working boards in the same order for as long as the timeout has not
\* fired, and when it never fires they return the same boolean and end with
\* the same best_state.board and best_state.moves_count.
C30_VariantsAgree ==
    (calls = 1 /\ (pc \in {"searching", "raising"} \/ Returned))
        => /\ Written <= Len(PlainRun.trace)
           /\ board = PlainRun.trace[Written]
           /\ (Returned /\ ~stats.timeout_occurred)
                 => /\ Written = Len(PlainRun.trace)
                    /\ (result = "True") = PlainRun.found
                    /\ best_state.board = PlainRun.best_state.board
                    /\ best_state.moves_count = PlainRun.best_state.moves_count

\* C30 witness: a search that placed and undone moves has returned with no
\* timeout, the variant of src/Horse.py having written as many boards.
C30_Witness ==
    /\ Returned
    /\ calls = 1
    /\ ~stats.timeout_occurred
    /\ stats.backtracks > 0
    /\ Written > 2
    /\ Written = Len(PlainRun.trace)

=============================================================================
